---- MODULE Spec2Model ----
(***************************************************************************)
(* App Store reviews parser (app_store_parse.py): the authenticated client *)
(* (auth_required, _auth), the page fetcher (_get_reviews,                 *)
(* get_reviews_page), the count estimator (get_app_rating_count), the      *)
(* thread-pool orchestrator (parse_parallel) and the CSV sink              *)
(* (write_reviews), run as the script's main block runs them.              *)
(***************************************************************************)
EXTENDS Bags, FiniteSets, Integers, Sequences, TLC

(* Program constants. *)
MAX_REVIEWS == 5200
REVIEWS_PER_PAGE == 10

(* Bounds of the small world: the largest ratingCount the metadata endpoint *)
(* answers, the largest max_workers, the longest data array of a response.  *)
MaxRatingCount == 30
MaxWorkers == 2
MaxRecords == 2

(* Bound of the large world: how far above MAX_REVIEWS the ratingCount goes. *)
CapExcess == 1

(* Bounds of the sink's world: the longest review sequence handed to *)
(* write_reviews, and the number of calls made with it.              *)
MaxSinkLen == 3
MaxWrites == 2

(* Bound of the page fetcher's world: the number of pages of the run. *)
MaxTracedPages == 2

(* Bound of the cursor's world: the number of turns of get_reviews' loop. *)
MaxCalls == 3

(* Python's None, and the values a token field of the upstream page may hold. *)
None == "<None>"
Tokens == {"", "tokA"}

VARIABLES
    auth_token,    \* AppStoreParser._auth_token
    pc,            \* position of the main thread
    max_workers,   \* parse_parallel's max_workers argument
    auth_response, \* the landing page the main thread's _auth received, if any
    info_response, \* the answer the main thread's get_app_info received, if any
    estimate,      \* the value get_app_rating_count returned
    rating_count,  \* parse_parallel's local rating_count (after clamping)
    last_page,     \* parse_parallel's local last_page
    futures,       \* future_to_page: page -> the state of its future
    work_queue,    \* the executor's queue of work items not yet taken by a worker
    yielded,       \* the pages whose future as_completed has yielded
    yield_order,   \* the same pages, in the order as_completed yielded them
    results,       \* parse_parallel's local results: <<page, reviews>> pairs
    reviews,       \* the list parse_parallel returned
    log,           \* bag of the records LOGGER emitted: <<level, message, n, text>>
    requests,      \* bag of the HTTP requests issued: <<endpoint, offset, bearer>>
    csv_file,      \* content of the output file: a sequence of rows
    upstream,      \* what the remote side does with the request of each page, where
                   \* it is fixed for the run; <<>> where it answers as it likes
    reviews_count, \* get_reviews' local count
    next_page,     \* get_reviews' local next_page
    calls          \* the _get_reviews calls of get_reviews so far, in order:
                   \* <<offset, number of reviews returned, cursor returned>>

vars == <<auth_token, pc, max_workers, auth_response, info_response, estimate,
          rating_count, last_page, futures, work_queue, yielded, yield_order,
          results, reviews, log, requests, csv_file, upstream, reviews_count,
          next_page, calls>>

(* The variables by owner, for the frame conditions. *)
client == <<auth_token, auth_response>>
estimator == <<info_response, estimate, rating_count, last_page>>
pool == <<futures, work_queue>>
collected == <<yielded, yield_order, results>>
sequential == <<reviews_count, next_page, calls>>

----------------------------------------------------------------------------
(* Pure helpers. *)

(* `not self._auth_token`: None and the empty string are both falsy. *)
Falsy(token) == token \in {None, ""}

Emit(bag, level, message, n, text) == bag (+) SetToBag({<<level, message, n, text>>})

Sent(bag, endpoint, offset, bearer) == bag (+) SetToBag({<<endpoint, offset, bearer>>})

(* A variant that reads the token with a default instead of failing. *)
AuthParseLenient(page) ==
    IF ~page.has_meta THEN [exc |-> "AttributeError", token |-> None]
    ELSE [exc |-> "", token |-> page.token]

(* _auth, lines 108-111: find the meta tag, decode its content, read the   *)
(* token. The status of the response is not looked at: raise_for_status is *)
(* not called here.                                                        *)
AuthParse(page) ==
    IF ~page.has_meta THEN [exc |-> "AttributeError", token |-> None]
    ELSE IF ~page.has_token THEN [exc |-> "KeyError", token |-> None]
    ELSE [exc |-> "", token |-> page.token]

(* get_app_info + get_app_rating_count: raise_for_status, then the field path. *)
RatingParse(resp) ==
    IF ~resp.status_ok THEN [exc |-> "HTTPError", count |-> 0]
    ELSE IF ~resp.has_count THEN [exc |-> "KeyError", count |-> 0]
    ELSE [exc |-> "", count |-> resp.ratingCount]

(* A variant that skips a record lacking a field and keeps the others. *)
RECURSIVE DecodeRecordsSkipping(_)
DecodeRecordsSkipping(data) ==
    IF data = <<>> THEN [exc |-> "", reviews |-> <<>>]
    ELSE LET rest == DecodeRecordsSkipping(Tail(data))
         IN  IF ~Head(data).complete THEN rest
             ELSE [exc |-> "", reviews |-> <<Head(data).id>> \o rest.reviews]

(* The loop of _get_reviews: every record becomes a Review, a record that *)
(* lacks a field raises KeyError and nothing of the page is returned.     *)
RECURSIVE DecodeRecords(_)
DecodeRecords(data) ==
    IF data = <<>> THEN [exc |-> "", reviews |-> <<>>]
    ELSE IF ~Head(data).complete THEN [exc |-> "KeyError", reviews |-> <<>>]
    ELSE LET rest == DecodeRecords(Tail(data))
         IN  IF rest.exc # "" THEN rest
             ELSE [exc |-> "", reviews |-> <<Head(data).id>> \o rest.reviews]

(* _get_reviews after the request: raise_for_status, page_json['data'], decode. *)
PageParse(resp) ==
    IF ~resp.status_ok THEN [exc |-> "HTTPError", reviews |-> <<>>]
    ELSE IF ~resp.has_data THEN [exc |-> "KeyError", reviews |-> <<>>]
    ELSE DecodeRecords(resp.data)

(* get_reviews_page: page_offset = (page - 1) * REVIEWS_PER_PAGE. *)
PageOffset(page) == (page - 1) * REVIEWS_PER_PAGE

(* A variant without the clamp. *)
ClampOff(count) == count

(* parse_parallel, lines 258-259: the clamp. *)
Clamp(count) == IF count > MAX_REVIEWS THEN MAX_REVIEWS ELSE count

(* A variant that rounds up, so that the partial last page is requested. *)
LastPageCeil(count) == (count + REVIEWS_PER_PAGE - 1) \div REVIEWS_PER_PAGE

(* parse_parallel, line 262. *)
LastPage(count) == count \div REVIEWS_PER_PAGE

(* A variant that leaves the pairs in completion order. *)
SortByPageOff(pairs) == pairs

(* results.sort(key=itemgetter(0)): a stable sort on the page number. The *)
(* pair at index j goes to the place given by the number of pairs that    *)
(* sort before it or are it.                                              *)
SortByPage(pairs) ==
    LET n == Len(pairs)
        place == SubSeq([j \in 1..n |->
                           Cardinality({k \in 1..n :
                                          \/ pairs[k][1] < pairs[j][1]
                                          \/ pairs[k][1] = pairs[j][1] /\ k <= j})],
                        1, n)
    IN  [i \in 1..n |-> pairs[CHOOSE j \in 1..n : place[j] = i]]

(* A variant that starts at the second pair. *)
RECURSIVE FlattenFromSecond(_)
FlattenFromSecond(pairs) ==
    IF Len(pairs) <= 1 THEN <<>>
    ELSE pairs[2][2] \o FlattenFromSecond(Tail(pairs))

(* [r for reviews_from_page in results for r in reviews_from_page[1]] *)
RECURSIVE Flatten(_)
Flatten(pairs) ==
    IF pairs = <<>> THEN <<>>
    ELSE IF Len(pairs) = 1 THEN pairs[1][2]
    ELSE LET half == Len(pairs) \div 2
         IN  Flatten(SubSeq(pairs, 1, half)) \o Flatten(SubSeq(pairs, half + 1, Len(pairs)))

----------------------------------------------------------------------------
(* What the remote side may answer. *)

LandingPages(tokens) ==
    {[status_ok |-> FALSE, has_meta |-> FALSE, has_token |-> FALSE, token |-> None],
     [status_ok |-> TRUE, has_meta |-> FALSE, has_token |-> FALSE, token |-> None],
     [status_ok |-> TRUE, has_meta |-> TRUE, has_token |-> FALSE, token |-> None]}
    \cup {[status_ok |-> ok, has_meta |-> TRUE, has_token |-> TRUE, token |-> t] :
             ok \in BOOLEAN, t \in tokens}

InfoResponses(counts) ==
    {[status_ok |-> ok, has_count |-> FALSE, ratingCount |-> 0] : ok \in BOOLEAN}
    \cup {[status_ok |-> ok, has_count |-> TRUE, ratingCount |-> c] :
             ok \in BOOLEAN, c \in counts}

(* The data arrays the reviews endpoint may answer at an offset: n records, *)
(* the reviews at positions offset + 1 .. offset + n of the remote          *)
(* collection, each with or without all of its fields. A review is          *)
(* identified by its position: the code never looks into a review, so       *)
(* pairwise different reviews are the general case.                         *)
PageDatas(offset, lengths) ==
    UNION {{[i \in 1..n |-> [id |-> offset + i, complete |-> c[i]]] :
              c \in [1..n -> BOOLEAN]} : n \in lengths}

PageResponses(offset, lengths) ==
    {[status_ok |-> ok, has_data |-> FALSE, data |-> <<>>] : ok \in BOOLEAN}
    \cup {[status_ok |-> ok, has_data |-> TRUE, data |-> d] :
             ok \in BOOLEAN, d \in PageDatas(offset, lengths)}

(* The one answer of a remote side that serves n complete records per request. *)
FullPages(offset, n) ==
    {[status_ok |-> TRUE, has_data |-> TRUE,
      data |-> [i \in 1..n |-> [id |-> offset + i, complete |-> TRUE]]]}

----------------------------------------------------------------------------
Init ==
    /\ auth_token = None
    /\ pc = "start"
    /\ max_workers \in 1..MaxWorkers
    /\ auth_response = <<>>
    /\ info_response = <<>>
    /\ estimate = 0
    /\ rating_count = 0
    /\ last_page = 0
    /\ futures = <<>>
    /\ work_queue = <<>>
    /\ yielded = {}
    /\ yield_order = <<>>
    /\ results = <<>>
    /\ reviews = <<>>
    /\ log = EmptyBag
    /\ requests = EmptyBag
    /\ csv_file = <<>>
    /\ upstream = <<>>
    /\ reviews_count = 0
    /\ next_page = None
    /\ calls = <<>>

(* The futures by state: PENDING in the queue, RUNNING in a worker, FINISHED. *)
Running == {p \in DOMAIN futures : futures[p].state = "RUNNING"}

Pending == {p \in DOMAIN futures : futures[p].state = "PENDING"}

FutureState(page) == IF page \in DOMAIN futures THEN futures[page].state ELSE ""

(* A variant of the pool that starts a thread for every work item. *)
WorkerAlwaysFree == TRUE

(* A variant of the pool that keeps one thread less than max_workers. *)
WorkerFreeButOne == Cardinality(Running) + 1 < max_workers

(* ThreadPoolExecutor(max_workers): at most max_workers work items run. *)
WorkerFree == Cardinality(Running) < max_workers

(* A variant that never sees the exception of a work item. *)
FutureFailedNever(future) == FALSE

(* future.result() raises when the work item ended with an exception. *)
FutureFailed(future) == future.exc # ""

(* A variant whose except clause names the HTTP error only. *)
CaughtOnlyHTTPError(exc) == exc = "HTTPError"

(* `except Exception`: every exception a work item can end with is one. *)
Caught(exc) == exc \in {"HTTPError", "KeyError", "AttributeError", "AssertionError"}

----------------------------------------------------------------------------
(* The main thread. *)

(* parse_parallel, line 256: get_app_rating_count calls get_app_info, whose  *)
(* auth_required wrapper runs _auth when the token is falsy. An exception of *)
(* _auth is caught nowhere and ends the script.                              *)
CallGetAppInfo(pages) ==
    /\ pc = "start"
    /\ IF Falsy(auth_token)
       THEN \E page \in pages :
              LET a == AuthParse(page)
                  started == Emit(log, "INFO", "Authorization in App Store...", 0, "")
              IN  /\ requests' = Sent(requests, "app_page", 0, None)
                  /\ auth_response' = <<page>>
                  /\ IF a.exc # ""
                     THEN /\ auth_token' = auth_token
                          /\ log' = started
                          /\ pc' = "crashed"
                     ELSE /\ auth_token' = a.token
                          /\ log' = Emit(started, "INFO",
                                         "Successfully authorized in App Store", 0, "")
                          /\ pc' = "get_app_info"
       ELSE /\ pc' = "get_app_info"
            /\ UNCHANGED <<client, log, requests>>
    /\ UNCHANGED <<max_workers, estimator, pool, collected, reviews, csv_file,
                   upstream, sequential>>

(* get_app_info's request, get_app_rating_count's field path, and the        *)
(* prologue of parse_parallel, lines 257-263: the clamp with its warning and *)
(* last_page.                                                                *)
GetAppRatingCount(responses) ==
    /\ pc = "get_app_info"
    /\ \E resp \in responses :
         LET r == RatingParse(resp)
             l1 == Emit(log, "INFO", "App has reviews", r.count, "")
             l2 == IF r.count > MAX_REVIEWS
                   THEN Emit(l1, "WARNING", "App has more than MAX_REVIEWS reviews",
                             MAX_REVIEWS, "")
                   ELSE l1
         IN  /\ requests' = Sent(requests, "app_info", 0, auth_token)
             /\ info_response' = <<resp>>
             /\ IF r.exc # ""
                THEN /\ pc' = "crashed"
                     /\ UNCHANGED <<estimate, rating_count, last_page, log>>
                ELSE /\ estimate' = r.count
                     /\ rating_count' = Clamp(r.count)
                     /\ last_page' = LastPage(Clamp(r.count))
                     /\ log' = Emit(l2, "INFO", "Reviews to scan", Clamp(r.count), "")
                     /\ pc' = "submit"
    /\ UNCHANGED <<client, max_workers, pool, collected, reviews, csv_file, upstream,
                   sequential>>

(* executor.submit(parser.get_reviews_page, page) for the next page of *)
(* range(1, last_page + 1).                                            *)
Submit ==
    /\ pc = "submit"
    /\ Len(futures) < last_page
    /\ futures' = Append(futures,
                         [state |-> "PENDING", step |-> "", exc |-> "", result |-> <<>>])
    /\ work_queue' = Append(work_queue, Len(futures) + 1)
    /\ UNCHANGED <<client, pc, max_workers, estimator, collected, reviews, log,
                   requests, csv_file, upstream, sequential>>

(* The dict comprehension is exhausted: the main thread enters as_completed. *)
AsCompleted ==
    /\ pc = "submit"
    /\ Len(futures) >= last_page
    /\ pc' = "collect"
    /\ UNCHANGED <<client, max_workers, estimator, pool, collected, reviews, log,
                   requests, csv_file, upstream, sequential>>

(* A variant whose append stands after the try statement instead of in its *)
(* else clause: a failed page is logged and recorded with no reviews.      *)
CollectWithoutElse(page) ==
    /\ pc = "collect"
    /\ FutureState(page) = "FINISHED"
    /\ page \notin yielded
    /\ yielded' = yielded \cup {page}
    /\ yield_order' = Append(yield_order, page)
    /\ IF FutureFailed(futures[page])
       THEN IF Caught(futures[page].exc)
            THEN /\ log' = Emit(log, "ERROR", "Exception on page", page,
                                futures[page].exc)
                 /\ results' = Append(results, <<page, <<>>>>)
                 /\ pc' = pc
            ELSE /\ pc' = "crashed"
                 /\ UNCHANGED <<log, results>>
       ELSE /\ log' = Emit(log, "INFO", "Page successfully scanned", page, "")
            /\ results' = Append(results, <<page, futures[page].result>>)
            /\ pc' = pc
    /\ UNCHANGED <<client, max_workers, estimator, pool, reviews, requests, csv_file,
                   upstream, sequential>>

(* One turn of the as_completed loop, lines 271-279: a finished future is *)
(* yielded; its exception is logged, or its reviews are recorded.         *)
Collect(page) ==
    /\ pc = "collect"
    /\ FutureState(page) = "FINISHED"
    /\ page \notin yielded
    /\ yielded' = yielded \cup {page}
    /\ yield_order' = Append(yield_order, page)
    /\ IF FutureFailed(futures[page])
       THEN IF Caught(futures[page].exc)
            THEN /\ log' = Emit(log, "ERROR", "Exception on page", page,
                                futures[page].exc)
                 /\ UNCHANGED <<pc, results>>
            ELSE /\ pc' = "crashed"
                 /\ UNCHANGED <<log, results>>
       ELSE /\ log' = Emit(log, "INFO", "Page successfully scanned", page, "")
            /\ results' = Append(results, <<page, futures[page].result>>)
            /\ pc' = pc
    /\ UNCHANGED <<client, max_workers, estimator, pool, reviews, requests, csv_file,
                   upstream, sequential>>

(* A variant that leaves the loop when every future has finished, yielded or not. *)
DrainedWhenFinished == \A p \in DOMAIN futures : futures[p].state = "FINISHED"

(* as_completed ends its iteration once it has yielded every future it was given. *)
Drained == yielded = DOMAIN futures

(* as_completed has yielded every future: the with block ends, then lines *)
(* 281-284.                                                               *)
Reassemble ==
    /\ pc = "collect"
    /\ Drained
    /\ results' = SortByPage(results)
    /\ reviews' = Flatten(results')
    /\ log' = Emit(log, "INFO", "Scanned reviews", Len(reviews'), "")
    /\ pc' = "returned"
    /\ UNCHANGED <<client, max_workers, estimator, pool, yielded, yield_order,
                   requests, csv_file, upstream, sequential>>

(* write_reviews: the file is opened with mode 'w', which empties it; the  *)
(* header row is written, then one row per review, made of a copy of the   *)
(* review's fields without developer_response; the reviews are left alone. *)
FieldNames == <<"user_name", "title", "review", "is_edited", "last_update", "rating">>

(* A variant that opens the file with mode 'a'. *)
OpenForAppending(content) == content

(* open(output_file_path, 'w', ...) *)
OpenForWriting(content) == <<>>

CsvWriter(content, rows) ==
    OpenForWriting(content) \o <<FieldNames>> \o [i \in 1..Len(rows) |-> <<rows[i]>>]

(* The call of write_reviews in the main block. *)
WriteReviews ==
    /\ pc = "returned"
    /\ csv_file' = CsvWriter(csv_file, reviews)
    /\ log' = Emit(Emit(log, "INFO", "Writing reviews", 0, ""),
                   "INFO", "reviews successfully written", Len(reviews), "")
    /\ pc' = "written"
    /\ UNCHANGED <<client, max_workers, estimator, pool, collected, reviews, requests,
                   upstream, sequential>>

----------------------------------------------------------------------------
(* The worker threads of the ThreadPoolExecutor. *)

(* A free worker takes the oldest queued work item and calls              *)
(* get_reviews_page: the assertion, then the auth_required wrapper of     *)
(* _get_reviews, where the worker reads the token and goes on to _auth or *)
(* to the request.                                                        *)
StartWorker ==
    /\ pc \in {"submit", "collect"}
    /\ work_queue # <<>>
    /\ WorkerFree
    /\ LET page == Head(work_queue)
       IN  futures' =
             IF page > 0
             THEN [futures EXCEPT ![page].state = "RUNNING",
                                  ![page].step = IF Falsy(auth_token)
                                                 THEN "auth" ELSE "fetch"]
             ELSE [futures EXCEPT ![page].state = "FINISHED",
                                  ![page].exc = "AssertionError"]
    /\ work_queue' = Tail(work_queue)
    /\ UNCHANGED <<client, pc, max_workers, estimator, collected, reviews, log,
                   requests, csv_file, upstream, sequential>>

(* _auth run by a worker; its exception ends the work item. *)
WorkerAuth(page, pages) ==
    /\ FutureState(page) = "RUNNING"
    /\ futures[page].step = "auth"
    /\ \E landing \in pages :
         LET a == AuthParse(landing)
             started == Emit(log, "INFO", "Authorization in App Store...", 0, "")
         IN  /\ requests' = Sent(requests, "app_page", 0, None)
             /\ IF a.exc # ""
                THEN /\ auth_token' = auth_token
                     /\ log' = started
                     /\ futures' = [futures EXCEPT ![page].state = "FINISHED",
                                                   ![page].step = "",
                                                   ![page].exc = a.exc]
                ELSE /\ auth_token' = a.token
                     /\ log' = Emit(started, "INFO",
                                    "Successfully authorized in App Store", 0, "")
                     /\ futures' = [futures EXCEPT ![page].step = "fetch"]
    /\ UNCHANGED <<auth_response, pc, max_workers, estimator, work_queue, collected,
                   reviews, csv_file, upstream, sequential>>

(* A variant in which the worker appends its reviews to the shared list. *)
FetchPageShared(page, responses) ==
    /\ FutureState(page) = "RUNNING"
    /\ futures[page].step = "fetch"
    /\ \E resp \in responses :
         LET r == PageParse(resp)
         IN  /\ futures' = [futures EXCEPT ![page].state = "FINISHED",
                                           ![page].step = "",
                                           ![page].exc = r.exc,
                                           ![page].result = r.reviews]
             /\ results' = IF r.exc = "" THEN Append(results, <<page, r.reviews>>)
                           ELSE results
    /\ log' = Emit(log, "INFO", "Scanning reviews from page",
                   PageOffset(page) \div REVIEWS_PER_PAGE, "")
    /\ requests' = Sent(requests, "reviews", PageOffset(page), auth_token)
    /\ UNCHANGED <<client, pc, max_workers, estimator, work_queue, yielded,
                   yield_order, reviews, csv_file, upstream, sequential>>

(* The body of _get_reviews for get_reviews_page(page): one request at the *)
(* page's offset, then the decoding; the future finishes with the reviews  *)
(* or with the exception.                                                  *)
FetchPage(page, responses) ==
    /\ FutureState(page) = "RUNNING"
    /\ futures[page].step = "fetch"
    /\ \E resp \in responses :
         LET r == PageParse(resp)
         IN  futures' = [futures EXCEPT ![page].state = "FINISHED",
                                        ![page].step = "",
                                        ![page].exc = r.exc,
                                        ![page].result = r.reviews]
    /\ log' = Emit(log, "INFO", "Scanning reviews from page",
                   PageOffset(page) \div REVIEWS_PER_PAGE, "")
    /\ requests' = Sent(requests, "reviews", PageOffset(page), auth_token)
    /\ UNCHANGED <<client, pc, max_workers, estimator, work_queue, collected,
                   reviews, csv_file, upstream, sequential>>

----------------------------------------------------------------------------
(* The small world: every answer of the remote side, every schedule. *)

(* The rating counts at and next to the page boundaries, and in between. *)
RatingCounts ==
    {c \in 0..MaxRatingCount :
       c % REVIEWS_PER_PAGE \in {0, 1, REVIEWS_PER_PAGE \div 2, REVIEWS_PER_PAGE - 1}}

Next ==
    \/ CallGetAppInfo(LandingPages(Tokens))
    \/ GetAppRatingCount(InfoResponses(RatingCounts))
    \/ Submit
    \/ AsCompleted
    \/ StartWorker
    \/ \E page \in DOMAIN futures : WorkerAuth(page, LandingPages(Tokens))
    \/ \E page \in DOMAIN futures :
         FetchPage(page, PageResponses(PageOffset(page), 0..MaxRecords))
    \/ \E page \in DOMAIN futures : Collect(page)
    \/ Reassemble
    \/ WriteReviews

Spec == Init /\ [][Next]_vars

----------------------------------------------------------------------------
(* The large world: rating counts around MAX_REVIEWS, a remote side that    *)
(* serves CapRecords complete records per request, one worker, and the      *)
(* schedule in which the pool starts once every page is submitted and each  *)
(* finished future is yielded before the next page starts.                  *)

CapRecords == REVIEWS_PER_PAGE + 1

CapCounts ==
    {MAX_REVIEWS + d * REVIEWS_PER_PAGE + e :
       d \in (0 - CapExcess)..CapExcess, e \in {0 - 1, 0, 1}}

Serial ==
    /\ pc = "submit" => Len(work_queue) = Len(futures)
    /\ Cardinality({p \in DOMAIN futures :
                      futures[p].state # "PENDING" /\ p \notin yielded}) <= 1

InitCap ==
    /\ auth_token = None
    /\ pc = "start"
    /\ max_workers = 1
    /\ auth_response = <<>>
    /\ info_response = <<>>
    /\ estimate = 0
    /\ rating_count = 0
    /\ last_page = 0
    /\ futures = <<>>
    /\ work_queue = <<>>
    /\ yielded = {}
    /\ yield_order = <<>>
    /\ results = <<>>
    /\ reviews = <<>>
    /\ log = EmptyBag
    /\ requests = EmptyBag
    /\ csv_file = <<>>
    /\ upstream = <<>>
    /\ reviews_count = 0
    /\ next_page = None
    /\ calls = <<>>

NextCap ==
    \/ CallGetAppInfo(LandingPages({"tokA"})) /\ Serial'
    \/ GetAppRatingCount(InfoResponses(CapCounts)) /\ Serial'
    \/ Submit /\ Serial'
    \/ AsCompleted /\ Serial'
    \/ StartWorker /\ Serial'
    \/ \E page \in DOMAIN futures :
         FetchPage(page, FullPages(PageOffset(page), CapRecords)) /\ Serial'
    \/ \E page \in DOMAIN futures : Collect(page) /\ Serial'
    \/ Reassemble /\ Serial'
    \/ WriteReviews /\ Serial'

SpecCap == InitCap /\ [][NextCap]_vars

----------------------------------------------------------------------------
(* The sink's world: write_reviews called, and called again, with one review *)
(* sequence and one destination, which may hold anything before the first   *)
(* call.                                                                    *)

SinkReviews == UNION {[1..n -> 1..MaxSinkLen] : n \in 0..MaxSinkLen}

(* What the destination may hold before the first call: nothing, an earlier *)
(* output, or something else.                                               *)
Destinations == {<<>>, <<FieldNames>>, <<FieldNames, <<1>>, <<2>>>>, <<<<"junk">>>>}

WriteCalls == CopiesIn(<<"INFO", "Writing reviews", 0, "">>, log)

InitSink ==
    /\ auth_token = None
    /\ pc = "returned"
    /\ max_workers = 1
    /\ auth_response = <<>>
    /\ info_response = <<>>
    /\ estimate = 0
    /\ rating_count = 0
    /\ last_page = 0
    /\ futures = <<>>
    /\ work_queue = <<>>
    /\ yielded = {}
    /\ yield_order = <<>>
    /\ results = <<>>
    /\ reviews \in SinkReviews
    /\ log = EmptyBag
    /\ requests = EmptyBag
    /\ csv_file \in Destinations
    /\ upstream = <<>>
    /\ reviews_count = 0
    /\ next_page = None
    /\ calls = <<>>

(* write_reviews called once more with the same arguments. *)
WriteReviewsAgain ==
    /\ pc = "written"
    /\ WriteCalls < MaxWrites
    /\ csv_file' = CsvWriter(csv_file, reviews)
    /\ log' = Emit(Emit(log, "INFO", "Writing reviews", 0, ""),
                   "INFO", "reviews successfully written", Len(reviews), "")
    /\ UNCHANGED <<client, pc, max_workers, estimator, pool, collected, reviews,
                   requests, upstream, sequential>>

NextSink ==
    \/ WriteReviews
    \/ WriteReviewsAgain

SpecSink == InitSink /\ [][NextSink]_vars

----------------------------------------------------------------------------
(* The page fetcher's world: the remote side is fixed for the run, answering *)
(* the request of each page with one response, any of those it may give;     *)
(* one worker, and the schedule of the large world.                          *)

TracedCounts == {REVIEWS_PER_PAGE * MaxTracedPages}

InitPage ==
    /\ auth_token = None
    /\ pc = "start"
    /\ max_workers = 1
    /\ auth_response = <<>>
    /\ info_response = <<>>
    /\ estimate = 0
    /\ rating_count = 0
    /\ last_page = 0
    /\ futures = <<>>
    /\ work_queue = <<>>
    /\ yielded = {}
    /\ yield_order = <<>>
    /\ results = <<>>
    /\ reviews = <<>>
    /\ log = EmptyBag
    /\ requests = EmptyBag
    /\ csv_file = <<>>
    /\ \E answers \in [1..MaxTracedPages -> BOOLEAN \X BOOLEAN \X (0..MaxRecords)
                                               \X [1..MaxRecords -> BOOLEAN]] :
         upstream = [p \in 1..MaxTracedPages |->
                       [status_ok |-> answers[p][1],
                        has_data |-> answers[p][2],
                        data |-> IF answers[p][2]
                                 THEN [i \in 1..answers[p][3] |->
                                         [id |-> PageOffset(p) + i,
                                          complete |-> answers[p][4][i]]]
                                 ELSE <<>>]]
    /\ reviews_count = 0
    /\ next_page = None
    /\ calls = <<>>

NextPage ==
    \/ CallGetAppInfo(LandingPages({"tokA"})) /\ Serial'
    \/ GetAppRatingCount(InfoResponses(TracedCounts)) /\ Serial'
    \/ Submit /\ Serial'
    \/ AsCompleted /\ Serial'
    \/ StartWorker /\ Serial'
    \/ \E page \in DOMAIN futures : FetchPage(page, {upstream[page]}) /\ Serial'
    \/ \E page \in DOMAIN futures : Collect(page) /\ Serial'
    \/ Reassemble /\ Serial'
    \/ WriteReviews /\ Serial'

SpecPage == InitPage /\ [][NextPage]_vars

----------------------------------------------------------------------------
(* The world of hung requests: the remote side is fixed for the run and      *)
(* answers the request of a page with a page of one review, with a failure   *)
(* status, or never (no timeout is set on the session's get, lines 181-194); *)
(* every schedule of the pool. The threads are scheduled fairly: the main    *)
(* thread takes its next step when it has one, a free worker takes the next  *)
(* work item, and a request that is answered returns.                        *)

LivePages == MaxRatingCount \div REVIEWS_PER_PAGE

LiveCounts == {REVIEWS_PER_PAGE * n : n \in 1..LivePages}

(* What the remote side may do with the request of a page: hangs says that *)
(* it never answers.                                                       *)
LiveAnswers(page) ==
    {[hangs |-> TRUE, status_ok |-> FALSE, has_data |-> FALSE, data |-> <<>>],
     [hangs |-> FALSE, status_ok |-> FALSE, has_data |-> FALSE, data |-> <<>>],
     [hangs |-> FALSE, status_ok |-> TRUE, has_data |-> TRUE,
      data |-> <<[id |-> PageOffset(page) + 1, complete |-> TRUE]>>]}

InitLive ==
    /\ auth_token = None
    /\ pc = "start"
    /\ max_workers \in 1..MaxWorkers
    /\ auth_response = <<>>
    /\ info_response = <<>>
    /\ estimate = 0
    /\ rating_count = 0
    /\ last_page = 0
    /\ futures = <<>>
    /\ work_queue = <<>>
    /\ yielded = {}
    /\ yield_order = <<>>
    /\ results = <<>>
    /\ reviews = <<>>
    /\ log = EmptyBag
    /\ requests = EmptyBag
    /\ csv_file = <<>>
    /\ upstream \in [1..LivePages -> UNION {LiveAnswers(p) : p \in 1..LivePages}]
    /\ \A p \in 1..LivePages : upstream[p] \in LiveAnswers(p)
    /\ reviews_count = 0
    /\ next_page = None
    /\ calls = <<>>

(* The request of the page is answered, and _get_reviews goes on. *)
LiveFetch(page) ==
    /\ page \in DOMAIN upstream
    /\ ~upstream[page].hangs
    /\ FetchPage(page, {upstream[page]})

MainThread ==
    \/ CallGetAppInfo(LandingPages({"tokA"}))
    \/ GetAppRatingCount(InfoResponses(LiveCounts))
    \/ Submit
    \/ AsCompleted
    \/ \E page \in DOMAIN futures : Collect(page)
    \/ Reassemble
    \/ WriteReviews

NextLive ==
    \/ MainThread
    \/ StartWorker
    \/ \E page \in DOMAIN futures : LiveFetch(page)

SpecLive ==
    /\ InitLive
    /\ [][NextLive]_vars
    /\ WF_vars(MainThread)
    /\ WF_vars(StartWorker)
    /\ \A page \in 1..LivePages : WF_vars(LiveFetch(page))

----------------------------------------------------------------------------
(* The cursor's world: get_reviews called on a new parser. The remote side *)
(* answers each request as it likes, with or without a `next` field.       *)

(* What page_json.get('next') may give: None when the field is absent or *)
(* null, else the string of the field.                                   *)
Cursors == {None, "", "/v1/catalog/ru/apps/id/reviews?offset"}

CursorResponses(offset, lengths) ==
    {[status_ok |-> resp.status_ok, has_data |-> resp.has_data, data |-> resp.data,
      next |-> c] : resp \in PageResponses(offset, lengths), c \in Cursors}

(* A variant that advances by the page size. *)
NextCountByPage(count, page_reviews) == count + REVIEWS_PER_PAGE

(* get_reviews, line 124: count += len(_reviews) *)
NextCount(count, page_reviews) == count + Len(page_reviews)

InitCursor ==
    /\ auth_token = None
    /\ pc = "get_reviews"
    /\ max_workers = 1
    /\ auth_response = <<>>
    /\ info_response = <<>>
    /\ estimate = 0
    /\ rating_count = 0
    /\ last_page = 0
    /\ futures = <<>>
    /\ work_queue = <<>>
    /\ yielded = {}
    /\ yield_order = <<>>
    /\ results = <<>>
    /\ reviews = <<>>
    /\ log = EmptyBag
    /\ requests = EmptyBag
    /\ csv_file = <<>>
    /\ upstream = <<>>
    /\ reviews_count = 0
    /\ next_page = None
    /\ calls = <<>>

(* get_reviews, lines 119-121. *)
GetReviews ==
    /\ pc = "get_reviews"
    /\ reviews_count' = 0
    /\ next_page' = "/v1/catalog/ru/apps/id/reviews?l=ru&offset=0"
    /\ reviews' = <<>>
    /\ pc' = "loop"
    /\ UNCHANGED <<client, max_workers, estimator, pool, collected, log, requests,
                   csv_file, upstream, calls>>

(* One turn of the loop, lines 122-125: _get_reviews(offset=count), with its *)
(* auth_required wrapper, then the three assignments. An exception of _auth  *)
(* or of _get_reviews leaves get_reviews.                                    *)
GetReviewsTurn(pages, lengths) ==
    /\ pc = "loop"
    /\ ~Falsy(next_page)
    /\ Len(calls) < MaxCalls
    /\ \E landing \in pages, resp \in CursorResponses(reviews_count, lengths) :
         LET unauthorized == Falsy(auth_token)
             a == IF unauthorized THEN AuthParse(landing)
                  ELSE [exc |-> "", token |-> auth_token]
             r == PageParse(resp)
             started == IF unauthorized
                        THEN Emit(log, "INFO", "Authorization in App Store...", 0, "")
                        ELSE log
             authorized == IF unauthorized
                           THEN Emit(started, "INFO",
                                     "Successfully authorized in App Store", 0, "")
                           ELSE log
             landed == IF unauthorized THEN Sent(requests, "app_page", 0, None)
                       ELSE requests
         IN  IF a.exc # ""
             THEN /\ pc' = "crashed"
                  /\ log' = started
                  /\ requests' = landed
                  /\ UNCHANGED <<auth_token, reviews, sequential>>
             ELSE /\ auth_token' = a.token
                  /\ log' = Emit(authorized, "INFO", "Scanning reviews from page",
                                 reviews_count \div REVIEWS_PER_PAGE, "")
                  /\ requests' = Sent(landed, "reviews", reviews_count, a.token)
                  /\ IF r.exc # ""
                     THEN /\ pc' = "crashed"
                          /\ UNCHANGED <<reviews, sequential>>
                     ELSE /\ pc' = pc
                          /\ next_page' = resp.next
                          /\ reviews_count' = NextCount(reviews_count, r.reviews)
                          /\ reviews' = reviews \o r.reviews
                          /\ calls' = Append(calls,
                                             <<reviews_count, r.reviews, resp.next>>)
    /\ UNCHANGED <<auth_response, max_workers, estimator, pool, collected, csv_file,
                   upstream>>

(* `while next_page` finds it falsy: return reviews. *)
GetReviewsReturn ==
    /\ pc = "loop"
    /\ Falsy(next_page)
    /\ pc' = "get_reviews_returned"
    /\ UNCHANGED <<client, max_workers, estimator, pool, collected, reviews, log,
                   requests, csv_file, upstream, sequential>>

NextCursor ==
    \/ GetReviews
    \/ GetReviewsTurn(LandingPages(Tokens), 0..MaxRecords)
    \/ GetReviewsReturn

SpecCursor == InitCursor /\ [][NextCursor]_vars

----------------------------------------------------------------------------
(* Properties. *)

Returned == pc \in {"returned", "written"}

PrologueDone == pc \in {"submit", "collect", "returned", "written"}

Submitted == pc \in {"collect", "returned", "written"}

(* The pages whose work item ended with an exception. *)
Failing == {p \in DOMAIN futures : futures[p].exc # ""}

AllSucceeded ==
    \A p \in DOMAIN futures : futures[p].state = "FINISHED" /\ futures[p].exc = ""

ErrorEntries == {e \in BagToSet(log) : e[1] = "ERROR"}

WarningEntries == {e \in BagToSet(log) : e[1] = "WARNING"}

PageRequests == {r \in BagToSet(requests) : r[1] = "reviews"}

LandingRequests == CopiesIn(<<"app_page", 0, None>>, requests)

(* What fetching page 1, then page 2, ... up to page n one after another *)
(* yields, a failed page yielding nothing.                               *)
RECURSIVE SequentialFetch(_)
SequentialFetch(n) ==
    IF n <= 0 THEN <<>>
    ELSE SequentialFetch(n - 1)
           \o (IF futures[n].exc = "" THEN futures[n].result ELSE <<>>)

(* C1: the sequence parse_parallel returns is the concatenation, in ascending *)
(* page number, of the review sequences of the pages that were fetched, each  *)
(* in its upstream order, whatever the order in which the futures completed   *)
(* and were yielded.                                                          *)
C1_OrderingInvariant == Returned => reviews = SequentialFetch(last_page)

(* C1 witness: a run has returned after as_completed yielded a later page *)
(* before an earlier one, both with reviews.                              *)
C1_OutOfOrderReturned ==
    /\ Returned
    /\ \E i \in 1..(Len(yield_order) - 1) :
         /\ yield_order[i] > yield_order[i + 1]
         /\ futures[yield_order[i]].result # <<>>
         /\ futures[yield_order[i + 1]].result # <<>>

RECURSIVE SumOfCounts(_)
SumOfCounts(n) ==
    IF n <= 0 THEN 0 ELSE SumOfCounts(n - 1) + Len(futures[n].result)

(* C2: when every page fetch succeeded, the returned sequence is as long as *)
(* the per-page counts add up to, the buffer holds every page of            *)
(* 1..last_page exactly once, and every review of every page is in the      *)
(* returned sequence at its place.                                          *)
C2_Completeness ==
    (Returned /\ AllSucceeded) =>
        /\ Len(reviews) = SumOfCounts(last_page)
        /\ Len(results) = Len(futures)
        /\ \A p \in DOMAIN futures :
             /\ results[p] = <<p, futures[p].result>>
             /\ \A i \in DOMAIN futures[p].result :
                  reviews[SumOfCounts(p - 1) + i] = futures[p].result[i]

(* C2 witness: a run of at least two pages, all fetched, has returned at *)
(* least three reviews.                                                  *)
C2_FullSuccessReturned ==
    /\ Returned
    /\ AllSucceeded
    /\ Len(futures) >= 2
    /\ Len(reviews) >= 3

RECURSIVE BaselineWithout(_, _)
BaselineWithout(n, failed) ==
    IF n <= 0 THEN <<>>
    ELSE BaselineWithout(n - 1, failed)
           \o (IF n \in failed THEN <<>> ELSE futures[n].result)

(* C3: for the set of failing pages, whatever it is, the returned sequence is *)
(* the sequential baseline without those pages; the log holds exactly one     *)
(* error record for each failing page, naming the page and the cause, and     *)
(* none for any other page; no page is requested twice, and the buffer holds  *)
(* no entry for a failing page.                                               *)
C3_GracefulDegradation ==
    Returned =>
        /\ reviews = BaselineWithout(Len(futures), Failing)
        /\ \A p \in Failing :
             /\ <<"ERROR", "Exception on page", p, futures[p].exc>> \in ErrorEntries
             /\ \A e \in ErrorEntries : e[3] = p => e[4] = futures[p].exc
        /\ \A e \in ErrorEntries : e[3] \in Failing /\ CopiesIn(e, log) = 1
        /\ \A r \in PageRequests :
             /\ CopiesIn(r, requests) = 1
             /\ \A q \in PageRequests : q[2] = r[2] => q = r
        /\ Len(results) = Len(futures) - Cardinality(Failing)
        /\ \A i \in DOMAIN results : results[i][1] \notin Failing

(* C3 witness: of three pages the second failed, the others brought reviews, *)
(* and the run has returned.                                                 *)
C3_OnePageFailed ==
    /\ Returned
    /\ Len(futures) = 3
    /\ Failing = {2}
    /\ futures[1].result # <<>>
    /\ futures[3].result # <<>>

(* C4: after the prologue, an estimate above MAX_REVIEWS has given          *)
(* rating_count 5200 and last_page 520 and exactly one log record of level  *)
(* WARNING and none of level ERROR; an estimate of at most MAX_REVIEWS is   *)
(* used as it is, with no WARNING record.                                   *)
C4_CapClamping ==
    PrologueDone =>
        IF estimate > 5200
        THEN /\ rating_count = 5200
             /\ last_page = 520
             /\ Cardinality(WarningEntries) = 1
             /\ \A e \in WarningEntries : CopiesIn(e, log) = 1
             /\ ErrorEntries = {}
        ELSE /\ rating_count = estimate
             /\ last_page = estimate \div 10
             /\ WarningEntries = {}

(* C4 witness: the prologue has run on an estimate a full page above the cap. *)
C4_ClampedRun ==
    /\ PrologueDone
    /\ estimate = MAX_REVIEWS + REVIEWS_PER_PAGE
    /\ WarningEntries # {}

(* C5: once the pages are submitted, the futures are those of the pages    *)
(* 1..(rating_count div 10) and of no other page, a page is in the work    *)
(* queue at most once, and only while it is pending; every page request    *)
(* goes to the offset of one of these pages and no offset is asked twice;  *)
(* below ten reviews nothing is submitted or requested, and the result is  *)
(* empty.                                                                  *)
C5_PageRange ==
    (PrologueDone /\ rating_count >= 0) =>
        /\ DOMAIN futures \subseteq 1..(rating_count \div REVIEWS_PER_PAGE)
        /\ Submitted => DOMAIN futures = 1..(rating_count \div REVIEWS_PER_PAGE)
        /\ \A p \in DOMAIN futures :
             Cardinality({i \in DOMAIN work_queue : work_queue[i] = p})
               = IF futures[p].state = "PENDING" THEN 1 ELSE 0
        /\ \A r \in PageRequests :
             /\ \E p \in 1..(rating_count \div REVIEWS_PER_PAGE) :
                  r[2] = (p - 1) * REVIEWS_PER_PAGE
             /\ r[2] + REVIEWS_PER_PAGE <= rating_count
             /\ CopiesIn(r, requests) = 1
        /\ rating_count < REVIEWS_PER_PAGE =>
             /\ futures = <<>>
             /\ PageRequests = {}
             /\ reviews = <<>>

(* C5 witness: with 25 reviews estimated, pages 1 and 2 were requested and *)
(* the run has returned.                                                   *)
C5_TwentyFive ==
    /\ Returned
    /\ rating_count = 25
    /\ {r[2] : r \in PageRequests} = {0, 10}

(* C6: the work items that have started and not finished never outnumber *)
(* max_workers.                                                          *)
C6_BoundedConcurrency == Cardinality(Running) <= max_workers

(* C6 witness: every worker is busy while a page waits in the queue. *)
C6_PoolSaturated ==
    /\ Cardinality(Running) = max_workers
    /\ work_queue # <<>>

(* C7: once the pool is reached the landing page has been requested exactly *)
(* once, by the main thread, and the token is the one that exchange stored. *)
C7_SingleTokenAcquisition ==
    PrologueDone =>
        /\ LandingRequests = 1
        /\ auth_token = auth_response[1].token

AuthFailed ==
    /\ auth_response # <<>>
    /\ ~(auth_response[1].has_meta /\ auth_response[1].has_token)

InfoFailed ==
    /\ info_response # <<>>
    /\ ~(info_response[1].status_ok /\ info_response[1].has_count)

(* C8: when the landing page the main thread received lacks the             *)
(* configuration blob or the token, or the metadata answer has a failure    *)
(* status or lacks ratingCount, the script has ended: nothing was           *)
(* submitted, no page was requested, nothing was returned or written, and   *)
(* no step is left to take; after a failed authentication the metadata      *)
(* request is not made either.                                              *)
C8_FatalStartup ==
    /\ (AuthFailed \/ InfoFailed) =>
         /\ pc = "crashed"
         /\ futures = <<>>
         /\ work_queue = <<>>
         /\ PageRequests = {}
         /\ reviews = <<>>
         /\ csv_file = <<>>
         /\ ~ENABLED Next
    /\ AuthFailed => info_response = <<>> /\ auth_token = None

(* C8 witness: the token was acquired and the metadata request failed. *)
C8_EstimateFailed ==
    /\ InfoFailed
    /\ ~AuthFailed
    /\ pc = "crashed"

(* C9: once a page is submitted the script cannot end without its output:  *)
(* the main thread is never ended by an exception, a step is always        *)
(* possible until the file is written, parse_parallel returns only after   *)
(* every submitted page has finished and been yielded, and the file then   *)
(* holds the header and one row per returned review.                       *)
C9_BestEffort ==
    /\ pc = "crashed" => futures = <<>> /\ yield_order = <<>>
    /\ pc \in {"submit", "collect", "returned"} => ENABLED Next
    /\ Returned =>
         \A p \in DOMAIN futures : futures[p].state = "FINISHED" /\ p \in yielded
    /\ pc = "written" =>
         /\ Len(csv_file) = 1 + Len(reviews)
         /\ csv_file[1] = FieldNames
         /\ \A i \in DOMAIN reviews : csv_file[i + 1] = <<reviews[i]>>

(* C9 witness: every one of at least two pages failed, and the file was *)
(* written with the header alone.                                       *)
C9_AllPagesFailed ==
    /\ pc = "written"
    /\ Len(futures) >= 2
    /\ Failing = DOMAIN futures
    /\ csv_file = <<FieldNames>>

(* C10: a run never returns more than 5200 reviews and never issues more *)
(* than 520 page requests.                                               *)
C10_HardCap ==
    /\ Len(reviews) <= 5200
    /\ Cardinality(PageRequests) <= 520
    /\ \A r \in PageRequests : CopiesIn(r, requests) = 1

(* C11: a call of write_reviews leaves the destination with the header and  *)
(* one row per review of the sequence, in the fixed column order, whatever  *)
(* the destination held before; a further call with the same sequence       *)
(* leaves the content as it is; and no call changes the sequence.           *)
C11_IdempotentSerialization ==
    [][/\ reviews' = reviews
       /\ csv_file' = <<FieldNames>> \o [i \in 1..Len(reviews) |-> <<reviews[i]>>]
       /\ pc = "written" => csv_file' = csv_file]_vars

(* C11 witness: a sequence of at least two reviews has been written twice. *)
C11_WrittenTwice ==
    /\ pc = "written"
    /\ WriteCalls = 2
    /\ Len(reviews) >= 2
    /\ Len(csv_file) = 1 + Len(reviews)

(* The page requests sent to an offset, whatever the bearer. *)
RequestsAt(offset) ==
    LET sent == {r \in PageRequests : r[2] = offset}
        RECURSIVE Copies(_)
        Copies(rs) == IF rs = {} THEN 0
                      ELSE LET r == CHOOSE x \in rs : TRUE
                           IN  CopiesIn(r, requests) + Copies(rs \ {r})
    IN  Copies(sent)

(* C12: every submitted page number is positive; a unit of work that has    *)
(* finished has issued exactly one page request, at offset (p - 1) * 10, a  *)
(* unit that has not started none; every requested offset is a non-negative *)
(* multiple of 10 and the offset of a submitted page, and no offset is      *)
(* requested twice.                                                         *)
C12_OffsetMapping ==
    /\ \A p \in DOMAIN futures :
         /\ p > 0
         /\ futures[p].state = "FINISHED" => RequestsAt((p - 1) * 10) = 1
         /\ futures[p].state = "PENDING" => RequestsAt((p - 1) * 10) = 0
         /\ \A q \in DOMAIN futures : p # q => (p - 1) * 10 # (q - 1) * 10
    /\ \A r \in PageRequests :
         /\ r[2] >= 0
         /\ r[2] % 10 = 0
         /\ (r[2] \div 10) + 1 \in DOMAIN futures
         /\ RequestsAt(r[2]) = 1

(* C13: the step that sorts and concatenates is taken only when every       *)
(* submitted unit has finished and has been yielded to the main thread, the *)
(* buffer then holding the pages that succeeded and no other; from then on  *)
(* neither the buffer nor any future changes.                               *)
C13_ReassemblyAfterDrain ==
    [][/\ (pc = "collect" /\ pc' = "returned") =>
            /\ \A p \in DOMAIN futures : futures[p].state = "FINISHED" /\ p \in yielded
            /\ {results[i][1] : i \in DOMAIN results} = DOMAIN futures \ Failing
            /\ {results'[i][1] : i \in DOMAIN results'} = DOMAIN futures \ Failing
       /\ Returned => results' = results /\ futures' = futures /\ reviews' = reviews]_vars

(* C13 witness: the run has returned, and the page that was yielded last, *)
(* after a later page, brought reviews.                                   *)
C13_LastYieldedKept ==
    /\ Returned
    /\ Len(yield_order) >= 2
    /\ yield_order[Len(yield_order)] = 1
    /\ futures[1].exc = ""
    /\ futures[1].result # <<>>
    /\ results[1] = <<1, futures[1].result>>

(* A step of a worker: the state of a submitted future changes. *)
WorkerStep ==
    \E p \in DOMAIN futures : p \in DOMAIN futures' /\ futures'[p] # futures[p]

(* C14: a step of a worker leaves the buffer as it is; the buffer changes    *)
(* only in a step of the main thread inside parse_parallel, either by one    *)
(* appended pair <<page, reviews>> for a successful future that as_completed *)
(* yields in that step, its earlier entries untouched, or by the final sort; *)
(* a yielded future that failed appends nothing.                             *)
C14_ExclusiveBufferOwnership ==
    [][/\ WorkerStep => results' = results
       /\ results' # results =>
            /\ pc = "collect"
            /\ futures' = futures
            /\ \/ \E p \in yielded' \ yielded :
                    /\ futures[p].exc = ""
                    /\ yielded' = yielded \cup {p}
                    /\ results' = Append(results, <<p, futures[p].result>>)
               \/ /\ pc' = "returned"
                  /\ yielded' = yielded
                  /\ Len(results') = Len(results)
       /\ \A p \in yielded' \ yielded :
            Len(results') = Len(results) + (IF futures[p].exc = "" THEN 1 ELSE 0)]_vars

(* C14 witness: the buffer holds the pair of one page while another page is *)
(* being fetched by a worker.                                               *)
C14_AppendWhileFetching ==
    /\ pc = "collect"
    /\ results # <<>>
    /\ \E p \in Running : futures[p].step = "fetch"

(* A response that decodes: a success status, a data field, and every record *)
(* with all of its fields.                                                   *)
Decodable(resp) ==
    /\ resp.status_ok
    /\ resp.has_data
    /\ \A i \in DOMAIN resp.data : resp.data[i].complete

(* The positions at which review r stands in the sequence. *)
Occurrences(r, seq) == {i \in DOMAIN seq : seq[i] = r}

(* C15: a finished page fetch whose response decodes has returned the        *)
(* reviews of all records of the response, in response order; a fetch whose  *)
(* response has a failure status, no data field, or a record lacking a field *)
(* has failed, the buffer has no entry for its page, and no record of its    *)
(* response, those decoded before the bad one included, is in the buffer or  *)
(* in the returned sequence; the records of a decoded page are all in the    *)
(* returned sequence, in response order.                                     *)
C15_PageAtomicity ==
    \A p \in DOMAIN futures :
        futures[p].state = "FINISHED" =>
            IF Decodable(upstream[p])
            THEN /\ futures[p].exc = ""
                 /\ futures[p].result =
                      [i \in 1..Len(upstream[p].data) |-> upstream[p].data[i].id]
                 /\ Returned =>
                      \A i \in DOMAIN upstream[p].data :
                          /\ Cardinality(Occurrences(upstream[p].data[i].id, reviews)) = 1
                          /\ \A j \in DOMAIN upstream[p].data :
                               i < j => \A a \in Occurrences(upstream[p].data[i].id, reviews),
                                           b \in Occurrences(upstream[p].data[j].id, reviews) :
                                           a < b
            ELSE /\ futures[p].exc # ""
                 /\ \A k \in DOMAIN results :
                      /\ results[k][1] # p
                      /\ \A i \in DOMAIN upstream[p].data :
                           Occurrences(upstream[p].data[i].id, results[k][2]) = {}
                 /\ \A i \in DOMAIN upstream[p].data :
                      Occurrences(upstream[p].data[i].id, reviews) = {}

(* C15 witness: the first page's response had a complete record followed by *)
(* one lacking a field, the second page decoded, and the run has returned   *)
(* the second page's reviews alone.                                         *)
C15_SecondRecordBad ==
    /\ Returned
    /\ Len(futures) = 2
    /\ upstream[1].status_ok /\ upstream[1].has_data
    /\ Len(upstream[1].data) = 2
    /\ upstream[1].data[1].complete /\ ~upstream[1].data[2].complete
    /\ Decodable(upstream[2])
    /\ Len(upstream[2].data) = 2
    /\ reviews = futures[2].result
    /\ Len(reviews) = 2

(* C16: no request to the metadata or the reviews endpoint carries an absent *)
(* token; an authenticated operation goes through the authentication        *)
(* exchange exactly when no token is held at its call: the main thread's    *)
(* first operation does, a unit of work is in the exchange only while the   *)
(* token is absent and at its request only with a token; after a failed     *)
(* exchange of the main thread the token is still absent and no             *)
(* authenticated request was issued.                                        *)
C16_AuthPrecondition ==
    /\ \A r \in BagToSet(requests) : r[1] \in {"app_info", "reviews"} => r[3] # None
    /\ pc # "start" => auth_response # <<>>
    /\ \A p \in DOMAIN futures :
         /\ futures[p].step = "auth" => auth_token = None
         /\ futures[p].step = "fetch" => auth_token # None
    /\ AuthFailed =>
         /\ auth_token = None
         /\ \A r \in BagToSet(requests) : r[1] = "app_page"

(* The submitted pages whose request is never answered. *)
HungPages == {p \in 1..last_page : upstream[p].hangs}

Fetched(p) == FutureState(p) = "FINISHED"

(* C17: once the pages are being submitted, parse_parallel returns           *)
(* eventually if no request hangs; it never returns if one does; and a page  *)
(* whose request does not hang is fetched eventually, when a single request  *)
(* hangs.                                                                    *)
C17_Termination ==
    /\ (pc = "submit" /\ HungPages = {}) ~> Returned
    /\ [](HungPages # {} => ~Returned)
    /\ \A p \in 1..LivePages :
         (pc = "submit" /\ Cardinality(HungPages) = 1 /\ p \in (1..last_page) \ HungPages)
            ~> Fetched(p)

(* C17 as amended: as above, the pages whose request does not hang being    *)
(* fetched eventually when fewer requests hang than the pool has workers;   *)
(* with one worker a page queued behind a hung one is never started.        *)
C17_TerminationWithFreeWorker ==
    /\ (pc = "submit" /\ HungPages = {}) ~> Returned
    /\ [](HungPages # {} => ~Returned)
    /\ \A p \in 1..LivePages :
         (pc = "submit" /\ Cardinality(HungPages) < max_workers
            /\ p \in (1..last_page) \ HungPages)
            ~> Fetched(p)
    /\ [](max_workers = 1 =>
            \A p \in HungPages, q \in DOMAIN futures :
                p < q => futures[q].state = "PENDING")

(* C17 witness: with two workers the first page's request hangs in one of   *)
(* them, the other two pages have been fetched and yielded, and the main    *)
(* thread waits in as_completed.                                            *)
C17_OneHungOthersFetched ==
    /\ pc = "collect"
    /\ max_workers = 2
    /\ last_page = 3
    /\ HungPages = {1}
    /\ futures[1].state = "RUNNING"
    /\ yielded = {2, 3}

(* The buffer entries of a page, and the error records of a page. *)
BufferEntries(p) == {i \in DOMAIN results : results[i][1] = p}

ErrorRecords(p) ==
    LET RECURSIVE Copies(_)
        Copies(es) == IF es = {} THEN 0
                      ELSE LET e == CHOOSE x \in es : TRUE
                           IN  CopiesIn(e, log) + Copies(es \ {e})
    IN  Copies({e \in ErrorEntries : e[3] = p})

RECURSIVE ErrorTotal(_)
ErrorTotal(n) == IF n <= 0 THEN 0 ELSE ErrorTotal(n - 1) + ErrorRecords(n)

(* C18: in every state the page numbers in the buffer are pairwise distinct, *)
(* lie in 1..last_page and belong to futures that finished without an       *)
(* exception; a yielded future has exactly one outcome, a buffer entry or an *)
(* error record, a future not yet yielded has none; and once every future   *)
(* is yielded the buffer entries and the error records add up to last_page. *)
C18_BufferInvariant ==
    /\ \A i, j \in DOMAIN results : i # j => results[i][1] # results[j][1]
    /\ \A i \in DOMAIN results :
         /\ results[i][1] \in 1..last_page
         /\ results[i][1] \in DOMAIN futures
         /\ futures[results[i][1]].state = "FINISHED"
         /\ futures[results[i][1]].exc = ""
         /\ results[i][2] = futures[results[i][1]].result
    /\ \A p \in DOMAIN futures :
         /\ p \in yielded =>
              /\ Cardinality(BufferEntries(p)) + ErrorRecords(p) = 1
              /\ futures[p].exc = "" <=> BufferEntries(p) # {}
         /\ p \notin yielded => BufferEntries(p) = {} /\ ErrorRecords(p) = 0
    /\ \A e \in ErrorEntries : e[3] \in yielded
    /\ (Submitted /\ yielded = DOMAIN futures) =>
         Len(results) + ErrorTotal(last_page) = last_page

(* C18 witness: three pages are yielded, two with a buffer entry and one *)
(* with an error record, before the buffer is sorted.                    *)
C18_DrainedMixed ==
    /\ pc = "collect"
    /\ last_page = 3
    /\ yielded = {1, 2, 3}
    /\ Len(results) = 2
    /\ ErrorTotal(3) = 1

(* The reviews the first n calls returned, one after another. *)
RECURSIVE ReturnedSoFar(_)
ReturnedSoFar(n) == IF n <= 0 THEN <<>> ELSE ReturnedSoFar(n - 1) \o calls[n][2]

ReviewRequests ==
    LET RECURSIVE Copies(_)
        Copies(rs) == IF rs = {} THEN 0
                      ELSE LET r == CHOOSE x \in rs : TRUE
                           IN  CopiesIn(r, requests) + Copies(rs \ {r})
    IN  Copies(PageRequests)

(* C19: in get_reviews every request is issued after the one before it has  *)
(* been answered: there are as many page requests as turns taken (one more  *)
(* when the last one failed); the offset of each call is the number of      *)
(* reviews all earlier calls returned, the first being 0; every response    *)
(* but the last carried a cursor; the sequence held, and returned, is the   *)
(* concatenation of the calls' reviews in request order; get_reviews has    *)
(* returned only after a response without cursor, returns at once after     *)
(* one, and otherwise goes on to the next request; an exception of a call   *)
(* ends get_reviews without a result.                                       *)
C19_CursorFollowing ==
    /\ pc \in {"loop", "get_reviews_returned", "crashed"} =>
         /\ \A k \in DOMAIN calls :
              /\ calls[k][1] = Len(ReturnedSoFar(k - 1))
              /\ k < Len(calls) => ~Falsy(calls[k][3])
         /\ \A r \in PageRequests :
              \/ \E k \in DOMAIN calls : r[2] = calls[k][1]
              \/ pc = "crashed" /\ r[2] = Len(ReturnedSoFar(Len(calls)))
         /\ \/ ReviewRequests = Len(calls)
            \/ pc = "crashed" /\ ReviewRequests = Len(calls) + 1
         /\ reviews = ReturnedSoFar(Len(calls))
         /\ reviews_count = Len(reviews)
         /\ calls # <<>> => next_page = calls[Len(calls)][3]
    /\ pc = "get_reviews_returned" =>
         /\ calls # <<>>
         /\ Falsy(calls[Len(calls)][3])
    /\ pc = "loop" =>
         /\ calls = <<>> => ~Falsy(next_page)
         /\ Falsy(next_page) =>
              /\ ENABLED GetReviewsReturn
              /\ ~ENABLED GetReviewsTurn(LandingPages(Tokens), 0..MaxRecords)
         /\ (~Falsy(next_page) /\ Len(calls) < MaxCalls) =>
              /\ ~ENABLED GetReviewsReturn
              /\ ENABLED GetReviewsTurn(LandingPages(Tokens), 0..MaxRecords)

(* C19 witness: get_reviews has returned after three requests, at offsets *)
(* 0, 2 and 3, the last answered without cursor.                          *)
C19_ThreeRequests ==
    /\ pc = "get_reviews_returned"
    /\ Len(calls) = 3
    /\ calls[1][1] = 0 /\ calls[2][1] = 2 /\ calls[3][1] = 3
    /\ calls[3][3] = None
    /\ Len(reviews) >= 4

====
